---- MODULE Spec2Model ----
(***************************************************************************)
(* Model of miner/payload_building.go: the Payload object (empty block,    *)
(* full block, its fees, the stop channel, the mutex and its condition     *)
(* variable), its four methods, and worker.buildPayload with the           *)
(* background goroutine that keeps rebuilding the payload.                 *)
(*                                                                         *)
(* Every goroutine is a thread with a program counter.  A method is the    *)
(* disjunction of its steps; a step is one statement (or one run of        *)
(* statements nothing else can observe).  The mutex is modelled by its     *)
(* holder, so that mutual exclusion is a property of the steps' guards.    *)
(* Timers are modelled by the state of their channel: the durations are    *)
(* abstracted to "fires at some later moment".                             *)
(***************************************************************************)
EXTENDS Integers, FiniteSets

\* ------------------------------------------------------------------ bounds
\* Number of full blocks the builder hands out in one run.
MaxBuilds == 2
\* Fees of a full block range over 1..MaxFee.
MaxFee == 2
\* Number of resolve calls each consumer goroutine makes.
MaxCalls == 1

\* ----------------------------------------------------------------- threads
Coord     == "co"
Bg        == "bg"
Producer  == "pr"
Resolvers == {"r1", "r2"}
Updaters  == {Bg, Producer}
Threads   == {Coord, Bg, Producer} \cup Resolvers
Free      == "free"

\* ------------------------------------------------------------------ values
Fees     == 1..MaxFee
\* A nil *big.Int.
NilFees  == 0 - 1
\* A nil *types.Block.
NilBlock == [id |-> 0, fees |-> 0]
\* The block built with emptyOnly = true: no transactions, no fees.
EmptyBlock == [id |-> 1, fees |-> 0]
\* A nil *beacon.ExecutableDataV1.
NilData  == [BlockHash |-> 0, Transactions |-> 0]
\* What a panicking call leaves behind.
PanicData == [BlockHash |-> 0 - 1, Transactions |-> 0]

\* beacon.BlockToExecutableData: the block's hash and its transactions (the
\* transaction set is represented by the fees it pays).
BlockToExecutableData(block) ==
  [BlockHash |-> block.id, Transactions |-> block.fees]

VARIABLES
  pc,        \* position of every goroutine
  lock,      \* holder of payload.lock, or Free
  payload,   \* TRUE once newPayload has run
  empty,     \* payload.empty
  full,      \* payload.full
  fullFees,  \* payload.fullFees
  stop,      \* TRUE once payload.stop is closed
  arg,       \* the (block, fees) argument of an update in progress
  ret,       \* what the last resolve call of a goroutine returned
  op,        \* which method that was
  waited,    \* whether the ResolveFull in progress (or last) went through cond.Wait
  callStop,  \* whether stop was closed when the call in progress (or last) was made
  calls,     \* number of resolve calls a consumer has made
  timer,     \* channel of the rebuild timer: "none", "armed", "ready", "idle"
  endTimer,  \* channel of the 12s timer: "none", "armed", "ready"
  nblocks,   \* number of full blocks built so far
  err,       \* result of buildPayload: "none", "nil", "error"
  spawned,   \* number of background goroutines started
  fullBuilt, \* whether getSealingBlock(..., false) was ever invoked
  lastFail,  \* whether the last background attempt failed
  emptyFailed, \* whether getSealingBlock(..., true) returned an error
  applied,   \* history: highest fee of the updates that passed the stop check
  resolved,  \* history: every value Resolve has returned
  closes     \* history: number of close(payload.stop) executed

vars == <<pc, lock, payload, empty, full, fullFees, stop, arg, ret, op, waited,
          callStop, calls, timer, endTimer, nblocks, err, spawned, fullBuilt,
          lastFail, emptyFailed, applied, resolved, closes>>

\* The fields of the Payload object.
payloadVars == <<payload, empty, full, fullFees, stop>>
\* The locals of the resolve calls.
callVars == <<ret, op, waited, callStop, calls>>
\* The goroutine's timers.
timerVars == <<timer, endTimer>>
\* The build bookkeeping of worker.buildPayload.
buildVars == <<nblocks, err, spawned, fullBuilt, lastFail, emptyFailed>>
histVars == <<applied, resolved, closes>>

Max(a, b) == IF a >= b THEN a ELSE b

Goto(t, label) == pc' = [pc EXCEPT ![t] = label]

Init ==
  /\ pc = [t \in Threads |->
             IF t = Coord THEN "bp_build" ELSE IF t = Bg THEN "off" ELSE "idle"]
  /\ lock = Free
  /\ payload = FALSE
  /\ empty = NilBlock
  /\ full = NilBlock
  /\ fullFees = NilFees
  /\ stop = FALSE
  /\ arg = [t \in Updaters |-> NilBlock]
  /\ ret = [t \in Resolvers |-> NilData]
  /\ op = [t \in Resolvers |-> "none"]
  /\ waited = [t \in Resolvers |-> FALSE]
  /\ callStop = [t \in Resolvers |-> FALSE]
  /\ calls = [t \in Resolvers |-> 0]
  /\ timer = "none"
  /\ endTimer = "none"
  /\ nblocks = 0
  /\ err = "none"
  /\ spawned = 0
  /\ fullBuilt = FALSE
  /\ lastFail = FALSE
  /\ emptyFailed = FALSE
  /\ applied = NilFees
  /\ resolved = {}
  /\ closes = 0

\* ------------------------------------------------------------- sync.Mutex
\* Mutation: Lock does not wait for the mutex to be unlocked.
CanLockAlways == TRUE

\* payload.lock.Lock() goes through only when the mutex is unlocked.
CanLock == lock = Free

\* payload.lock.Lock()
Lock(t) == CanLock /\ lock' = t
\* payload.lock.Unlock(), deferred to the return of the method
Unlock(t) == lock = t /\ lock' = Free

\* Leaving a method: the background goroutine goes on with timer.Reset, any
\* other caller is done with the call.
Return(t) == IF t = Bg THEN "bg_reset" ELSE "idle"

\* ------------------------------------------------------- Payload.update
\* Mutation: the stop check of update is left out.
StaleUpdateNever == FALSE

\* select { case <-payload.stop: return; default: }
StaleUpdate == stop

\* Mutation: the last writer wins, whatever its fee.
AcceptsAlways(fees) == TRUE

\* Mutation: the comparison is >= 0, so that a tie replaces the stored block.
AcceptsTie(fees) == full = NilBlock \/ fees >= fullFees

\* payload.full == nil || fees.Cmp(payload.fullFees) > 0
Accepts(fees) == full = NilBlock \/ fees > fullFees

\* Mutation: the wake-up is left out.
BroadcastNone(t) == [pc EXCEPT ![t] = Return(t)]

\* payload.cond.Broadcast(): every goroutine parked in cond.Wait is made runnable.
Broadcast(t) ==
  [u \in Threads |-> IF u = t THEN Return(t)
                     ELSE IF pc[u] = "rf_wait" THEN "rf_woken" ELSE pc[u]]

\* Lock, the stop check, the comparison and "payload.full = block".
UpdateEnter(t) ==
  /\ pc[t] = "upd_lock"
  /\ Lock(t)
  /\ IF StaleUpdate
       THEN /\ Goto(t, "upd_ret")
            /\ UNCHANGED <<full, applied>>
       ELSE /\ applied' = Max(applied, arg[t].fees)
            /\ IF Accepts(arg[t].fees)
                 THEN full' = arg[t] /\ Goto(t, "upd_fees")
                 ELSE UNCHANGED full /\ Goto(t, "upd_bcast")
  /\ UNCHANGED <<payload, empty, fullFees, stop, arg, callVars, timerVars,
                 buildVars, resolved, closes>>

\* payload.fullFees = fees
UpdateFees(t) ==
  /\ pc[t] = "upd_fees"
  /\ fullFees' = arg[t].fees
  /\ Goto(t, "upd_bcast")
  /\ UNCHANGED <<lock, payload, empty, full, stop, arg, callVars, timerVars,
                 buildVars, histVars>>

\* payload.cond.Broadcast(), then the deferred Unlock.
UpdateBroadcast(t) ==
  /\ pc[t] = "upd_bcast"
  /\ pc' = Broadcast(t)
  /\ Unlock(t)
  /\ arg' = [arg EXCEPT ![t] = NilBlock]
  /\ UNCHANGED <<payloadVars, callVars, timerVars, buildVars, histVars>>

\* Mutation: the early return leaves the mutex locked.
UpdateRejectKeepsLock(t) ==
  /\ pc[t] = "upd_ret"
  /\ Goto(t, Return(t))
  /\ arg' = [arg EXCEPT ![t] = NilBlock]
  /\ UNCHANGED <<lock, payloadVars, callVars, timerVars, buildVars, histVars>>

\* Mutation: the stale return also broadcasts on the condition variable.
UpdateRejectBroadcasts(t) ==
  /\ pc[t] = "upd_ret"
  /\ pc' = Broadcast(t)
  /\ Unlock(t)
  /\ arg' = [arg EXCEPT ![t] = NilBlock]
  /\ UNCHANGED <<payloadVars, callVars, timerVars, buildVars, histVars>>

\* "return // reject stale update", then the deferred Unlock.
UpdateReject(t) ==
  /\ pc[t] = "upd_ret"
  /\ Goto(t, Return(t))
  /\ Unlock(t)
  /\ arg' = [arg EXCEPT ![t] = NilBlock]
  /\ UNCHANGED <<payloadVars, callVars, timerVars, buildVars, histVars>>

update(t) ==
  \/ UpdateEnter(t)
  \/ UpdateFees(t)
  \/ UpdateBroadcast(t)
  \/ UpdateReject(t)

\* A direct caller of update inside the package, next to the background
\* goroutine: it hands in a block of its own.
CallUpdate(t) ==
  /\ t = Producer
  /\ pc[t] = "idle"
  /\ pc[Coord] = "bp_done"
  /\ nblocks < MaxBuilds
  /\ \E f \in Fees : arg' = [arg EXCEPT ![t] = [id |-> nblocks + 2, fees |-> f]]
  /\ nblocks' = nblocks + 1
  /\ Goto(t, "upd_lock")
  /\ UNCHANGED <<lock, payloadVars, callVars, timerVars, err, spawned, fullBuilt,
                 lastFail, emptyFailed, histVars>>

\* ------------------------------------------------------ Payload.Resolve
\* The start of a resolve call by a consumer that holds the *Payload; the
\* call starts with payload.lock.Lock().
Call(t) ==
  /\ pc[t] = "idle"
  /\ pc[Coord] = "bp_done"
  /\ calls[t] < MaxCalls
  /\ calls' = [calls EXCEPT ![t] = @ + 1]
  /\ callStop' = [callStop EXCEPT ![t] = stop]
  /\ CanLock

\* The return of a resolve call: the value, and the deferred Unlock.
Finish(t, name, value) ==
  /\ ret' = [ret EXCEPT ![t] = value]
  /\ op' = [op EXCEPT ![t] = name]
  /\ lock' = Free
  /\ Goto(t, "idle")

\* Mutation: Resolve hands out the empty block whatever was built.
ResolveValueEmpty == BlockToExecutableData(empty)

\* if payload.full != nil { return full } return empty
ResolveValue ==
  IF full # NilBlock THEN BlockToExecutableData(full)
                     ELSE BlockToExecutableData(empty)

\* Mutation: Resolve closes payload.stop without looking at it first.
ResolveEnterCloses(t) ==
  /\ Call(t)
  /\ lock' = t
  /\ Goto(t, "res_close")
  /\ op' = [op EXCEPT ![t] = "none"]
  /\ ret' = [ret EXCEPT ![t] = NilData]
  /\ waited' = [waited EXCEPT ![t] = FALSE]
  /\ UNCHANGED <<payloadVars, arg, timerVars, buildVars, histVars>>

\* Lock, then select { case <-payload.stop: default: close(payload.stop) }
ResolveEnter(t) ==
  /\ Call(t)
  /\ lock' = t
  /\ IF stop THEN Goto(t, "res_ret") ELSE Goto(t, "res_close")
  /\ op' = [op EXCEPT ![t] = "none"]
  /\ ret' = [ret EXCEPT ![t] = NilData]
  /\ waited' = [waited EXCEPT ![t] = FALSE]
  /\ UNCHANGED <<payloadVars, arg, timerVars, buildVars, histVars>>

\* Mutation: Resolve goes on without closing payload.stop.
ResolveCloseSkipped(t) ==
  /\ pc[t] = "res_close"
  /\ Goto(t, "res_ret")
  /\ UNCHANGED <<lock, payloadVars, arg, callVars, timerVars, buildVars, histVars>>

\* close(payload.stop); closing a closed channel panics.
ResolveClose(t) ==
  /\ pc[t] = "res_close"
  /\ IF stop
       THEN /\ Goto(t, "panic")
            /\ ret' = [ret EXCEPT ![t] = PanicData]
            /\ UNCHANGED <<stop, closes>>
       ELSE /\ stop' = TRUE
            /\ closes' = closes + 1
            /\ Goto(t, "res_ret")
            /\ UNCHANGED ret
  /\ UNCHANGED <<lock, payload, empty, full, fullFees, arg, op, waited, callStop,
                 calls, timerVars, buildVars, applied, resolved>>

ResolveReturn(t) ==
  /\ pc[t] = "res_ret"
  /\ Finish(t, "Resolve", ResolveValue)
  /\ resolved' = resolved \cup {ResolveValue}
  /\ UNCHANGED <<payloadVars, arg, waited, callStop, calls, timerVars, buildVars,
                 applied, closes>>

Resolve(t) ==
  \/ ResolveEnter(t)
  \/ ResolveClose(t)
  \/ ResolveReturn(t)

\* ------------------------------------------------- Payload.ResolveEmpty
\* Mutation: ResolveEmpty prefers the full block, as Resolve does.
ResolveEmptyValueFull ==
  IF full # NilBlock THEN BlockToExecutableData(full)
                     ELSE BlockToExecutableData(empty)

\* return beacon.BlockToExecutableData(payload.empty)
ResolveEmptyValue == BlockToExecutableData(empty)

\* Lock, the return, and the deferred Unlock.
ResolveEmpty(t) ==
  /\ Call(t)
  /\ Finish(t, "ResolveEmpty", ResolveEmptyValue)
  /\ waited' = [waited EXCEPT ![t] = FALSE]
  /\ UNCHANGED <<payloadVars, arg, timerVars, buildVars, histVars>>

\* -------------------------------------------------- Payload.ResolveFull
\* Mutation: ResolveFull does not look at payload.stop before it waits.
FullGivesUpNever == FALSE

\* The select inside "if payload.full == nil": return nil when stop is closed.
FullGivesUp == stop

\* return beacon.BlockToExecutableData(payload.full): a nil block panics.
ResolveFullValue(t) ==
  IF full = NilBlock
    THEN /\ Goto(t, "panic")
         /\ ret' = [ret EXCEPT ![t] = PanicData]
         /\ op' = [op EXCEPT ![t] = "none"]
         /\ lock' = t
    ELSE Finish(t, "ResolveFull", BlockToExecutableData(full))

\* Lock; if payload.full == nil { select {...}; payload.cond.Wait() }; with a
\* full block at hand the call returns it.  cond.Wait puts the caller on the
\* notify list and unlocks in one step.
ResolveFullEnter(t) ==
  /\ Call(t)
  /\ IF full # NilBlock
       THEN /\ ResolveFullValue(t)
            /\ waited' = [waited EXCEPT ![t] = FALSE]
       ELSE IF FullGivesUp
         THEN /\ Finish(t, "ResolveFull", NilData)
              /\ waited' = [waited EXCEPT ![t] = FALSE]
         ELSE /\ lock' = Free
              /\ waited' = [waited EXCEPT ![t] = TRUE]
              /\ op' = [op EXCEPT ![t] = "none"]
              /\ ret' = [ret EXCEPT ![t] = NilData]
              /\ Goto(t, "rf_wait")
  /\ UNCHANGED <<payloadVars, arg, timerVars, buildVars, histVars>>

\* The end of cond.Wait: a woken goroutine takes the lock again and goes on
\* to the return.
ResolveFullWake(t) ==
  /\ pc[t] = "rf_woken"
  /\ CanLock
  /\ ResolveFullValue(t)
  /\ UNCHANGED <<payloadVars, arg, waited, callStop, calls, timerVars, buildVars,
                 histVars>>

ResolveFull(t) ==
  \/ ResolveFullEnter(t)
  \/ ResolveFullWake(t)

\* ------------------------------------------------- worker.getSealingBlock
\* The external builder: it fails, or it hands out a block with its fees.  A
\* full block gets the next identity; once MaxBuilds blocks are out, further
\* calls fail.
SealingBlocks(emptyOnly) ==
  IF emptyOnly THEN {EmptyBlock}
  ELSE IF nblocks < MaxBuilds
         THEN {[id |-> nblocks + 2, fees |-> f] : f \in Fees}
         ELSE {}

\* --------------------------------------------------- worker.buildPayload
\* Mutation: the error of the empty build is ignored.
AbortOnErrorNever(failed) == FALSE

\* if err != nil { return nil, err }
AbortOnError(failed) == failed

\* Mutation: a failed attempt ends the goroutine.
AfterFailureStops == "bg_stopped"

\* What the goroutine does with "err == nil" false: it skips the update.
AfterFailure == "bg_reset"

\* empty, _, err := w.getSealingBlock(..., true); if err != nil { return nil, err }
BuildEmpty ==
  /\ pc[Coord] = "bp_build"
  /\ \E failed \in BOOLEAN :
       /\ emptyFailed' = failed
       /\ IF AbortOnError(failed)
            THEN err' = "error" /\ Goto(Coord, "bp_failed")
            ELSE err' = err /\ Goto(Coord, "bp_new")
  /\ UNCHANGED <<lock, payloadVars, arg, callVars, timerVars, nblocks, spawned,
                 fullBuilt, lastFail, histVars>>

\* Mutation: the constructor drops the empty block it is given.
newPayloadNoEmpty ==
  /\ pc[Coord] = "bp_new"
  /\ payload' = TRUE
  /\ empty' = NilBlock
  /\ full' = NilBlock
  /\ fullFees' = NilFees
  /\ stop' = FALSE
  /\ lock' = Free
  /\ Goto(Coord, "bp_go")
  /\ UNCHANGED <<arg, callVars, timerVars, buildVars, histVars>>

\* payload := newPayload(empty)
newPayload ==
  /\ pc[Coord] = "bp_new"
  /\ payload' = TRUE
  /\ empty' = IF emptyFailed THEN NilBlock ELSE EmptyBlock
  /\ full' = NilBlock
  /\ fullFees' = NilFees
  /\ stop' = FALSE
  /\ lock' = Free
  /\ Goto(Coord, "bp_go")
  /\ UNCHANGED <<arg, callVars, timerVars, buildVars, histVars>>

\* go func() { ... }()
Spawn ==
  /\ pc[Coord] = "bp_go"
  /\ pc' = [pc EXCEPT ![Coord] = "bp_ret", ![Bg] = "bg_init"]
  /\ spawned' = spawned + 1
  /\ UNCHANGED <<lock, payloadVars, arg, callVars, timerVars, nblocks, err,
                 emptyFailed, fullBuilt, lastFail, histVars>>

\* return payload, nil
BuildReturn ==
  /\ pc[Coord] = "bp_ret"
  /\ err' = "nil"
  /\ Goto(Coord, "bp_done")
  /\ UNCHANGED <<lock, payloadVars, arg, callVars, timerVars, nblocks, spawned,
                 emptyFailed, fullBuilt, lastFail, histVars>>

buildPayload ==
  \/ BuildEmpty
  \/ newPayload
  \/ Spawn
  \/ BuildReturn

\* Mutation: the rebuild timer starts with the recommit interval.
BgInitWaits ==
  /\ pc[Bg] = "bg_init"
  /\ timer' = "armed"
  /\ endTimer' = "armed"
  /\ Goto(Bg, "bg_select")
  /\ UNCHANGED <<lock, payloadVars, arg, callVars, buildVars, histVars>>

\* timer := time.NewTimer(0); endTimer := time.NewTimer(time.Second * 12)
BgInit ==
  /\ pc[Bg] = "bg_init"
  /\ timer' = "ready"
  /\ endTimer' = "armed"
  /\ Goto(Bg, "bg_select")
  /\ UNCHANGED <<lock, payloadVars, arg, callVars, buildVars, histVars>>

\* Mutation: the goroutine takes payload.lock before it calls the builder.
BgSelectTimerLocked ==
  /\ pc[Bg] = "bg_select"
  /\ timer = "ready"
  /\ timer' = "idle"
  /\ fullBuilt' = TRUE
  /\ Lock(Bg)
  /\ Goto(Bg, "bg_build")
  /\ UNCHANGED <<payloadVars, arg, callVars, endTimer, nblocks, err, spawned,
                 emptyFailed, lastFail, histVars>>

\* case <-timer.C: the builder is invoked with emptyOnly = false
BgSelectTimer ==
  /\ pc[Bg] = "bg_select"
  /\ timer = "ready"
  /\ timer' = "idle"
  /\ fullBuilt' = TRUE
  /\ Goto(Bg, "bg_build")
  /\ UNCHANGED <<lock, payloadVars, arg, callVars, endTimer, nblocks, err, spawned,
                 emptyFailed, lastFail, histVars>>

\* defer timer.Stop(): a timer that has not fired will not fire.
TimerStopped == IF timer = "armed" THEN "idle" ELSE timer

\* case <-payload.stop: return
BgSelectStop ==
  /\ pc[Bg] = "bg_select"
  /\ stop
  /\ timer' = TimerStopped
  /\ Goto(Bg, "bg_stopped")
  /\ UNCHANGED <<lock, payloadVars, arg, callVars, endTimer, buildVars, histVars>>

\* Mutation: the goroutine closes payload.stop when the end timer fires.
BgSelectEndCloses ==
  /\ pc[Bg] = "bg_select"
  /\ endTimer = "ready"
  /\ endTimer' = "idle"
  /\ timer' = TimerStopped
  /\ stop' = TRUE
  /\ Goto(Bg, "bg_stopped")
  /\ UNCHANGED <<lock, payload, empty, full, fullFees, arg, callVars, buildVars,
                 histVars>>

\* case <-endTimer.C: return
BgSelectEnd ==
  /\ pc[Bg] = "bg_select"
  /\ endTimer = "ready"
  /\ endTimer' = "idle"
  /\ timer' = TimerStopped
  /\ Goto(Bg, "bg_stopped")
  /\ UNCHANGED <<lock, payloadVars, arg, callVars, buildVars, histVars>>

\* block, fees, err := w.getSealingBlock(..., false) returns;
\* if err == nil { payload.update(block, fees) }
BgBuild ==
  /\ pc[Bg] = "bg_build"
  /\ \/ /\ lastFail' = TRUE
        /\ Goto(Bg, AfterFailure)
        /\ UNCHANGED <<arg, nblocks>>
     \/ \E block \in SealingBlocks(FALSE) :
          /\ arg' = [arg EXCEPT ![Bg] = block]
          /\ nblocks' = nblocks + 1
          /\ lastFail' = FALSE
          /\ Goto(Bg, "upd_lock")
  /\ UNCHANGED <<lock, payloadVars, callVars, timerVars, err, spawned, emptyFailed,
                 fullBuilt, histVars>>

\* timer.Reset(w.recommit)
BgReset ==
  /\ pc[Bg] = "bg_reset"
  /\ timer' = "armed"
  /\ Goto(Bg, "bg_select")
  /\ UNCHANGED <<lock, payloadVars, arg, callVars, endTimer, buildVars, histVars>>

\* The runtime delivers the rebuild timer's tick after w.recommit.
TimerFire ==
  /\ timer = "armed"
  /\ timer' = "ready"
  /\ UNCHANGED <<pc, lock, payloadVars, arg, callVars, endTimer, buildVars, histVars>>

\* The runtime delivers the end timer's tick after 12 seconds.
EndTimerFire ==
  /\ endTimer = "armed"
  /\ endTimer' = "ready"
  /\ UNCHANGED <<pc, lock, payloadVars, arg, callVars, timer, buildVars, histVars>>

backgroundLoop ==
  \/ BgInit
  \/ BgSelectTimer
  \/ BgSelectStop
  \/ BgSelectEnd
  \/ BgBuild
  \/ BgReset

\* --------------------------------------------------------- specification
Next ==
  \/ buildPayload
  \/ backgroundLoop
  \/ TimerFire
  \/ EndTimerFire
  \/ CallUpdate(Producer)
  \/ \E t \in Updaters : update(t)
  \/ \E t \in Resolvers : Resolve(t) \/ ResolveEmpty(t) \/ ResolveFull(t)

Spec == Init /\ [][Next]_vars

\* The scheduler runs every goroutine that can take a step, the runtime
\* delivers armed timers, the builder returns, and sync.Mutex hands the lock
\* to a goroutine that keeps asking for it.  Whether a consumer or a direct
\* caller makes a call at all is left open.
Fairness ==
  /\ WF_vars(buildPayload)
  /\ WF_vars(BgInit)
  /\ WF_vars(BgBuild)
  /\ WF_vars(BgReset)
  /\ WF_vars(BgSelectTimer \/ BgSelectStop \/ BgSelectEnd)
  /\ WF_vars(TimerFire)
  /\ WF_vars(EndTimerFire)
  /\ \A t \in Updaters :
       /\ SF_vars(UpdateEnter(t))
       /\ WF_vars(UpdateFees(t) \/ UpdateBroadcast(t) \/ UpdateReject(t))
  /\ \A t \in Resolvers :
       /\ WF_vars(ResolveClose(t) \/ ResolveReturn(t))
       /\ SF_vars(ResolveFullWake(t))

FairSpec == Spec /\ Fairness

\* The background loop with the callers that write the Payload: the two
\* callers of update and the consumers' Resolve.  ResolveEmpty and ResolveFull
\* write no field and hold the lock for one step only.
LoopNext ==
  \/ buildPayload
  \/ backgroundLoop
  \/ TimerFire
  \/ EndTimerFire
  \/ CallUpdate(Producer)
  \/ \E t \in Updaters : update(t)
  \/ \E t \in Resolvers : Resolve(t)

\* What the loop's progress rests on: the goroutine runs when it can, the
\* builder returns, whoever holds the mutex goes on to unlock it, sync.Mutex
\* hands the lock to the goroutine that keeps asking for it, and a select
\* with several ready cases picks one of them at random, so that a case which
\* is ready again and again is picked in the end.
LoopFairness ==
  /\ WF_vars(BgInit \/ BgBuild \/ BgReset \/ UpdateFees(Bg)
               \/ UpdateBroadcast(Bg) \/ UpdateReject(Bg))
  /\ SF_vars(UpdateEnter(Bg))
  /\ SF_vars(BgSelectStop)
  /\ SF_vars(BgSelectEnd)
  /\ WF_vars(\/ UpdateFees(Producer) \/ UpdateBroadcast(Producer)
             \/ UpdateReject(Producer)
             \/ \E t \in Resolvers : ResolveClose(t) \/ ResolveReturn(t))

LoopSpec == Init /\ [][LoopNext]_vars /\ LoopFairness

\* ================================================================ claims
\* The step of thread t that leaves label l.
Leaves(t, l) == pc[t] = l /\ pc'[t] # l

\* C1: Resolve never returns nil: with no update applied before the stop
\* channel was closed it returns the empty block, otherwise it returns the
\* stored full block, whose fees are the highest fees of the updates applied
\* before the close.
C1_ResolveReturnsBest ==
  \A t \in Resolvers :
    op[t] = "Resolve" =>
      /\ ret[t] # NilData
      /\ IF applied = NilFees
           THEN ret[t] = BlockToExecutableData(EmptyBlock)
           ELSE /\ ret[t] = BlockToExecutableData(full)
                /\ ret[t].Transactions = applied

\* C1, reached: Resolve has returned a full block that replaced an earlier
\* one, while a lower-fee update was applied as well.
C1_Witness ==
  \E t \in Resolvers :
    /\ op[t] = "Resolve"
    /\ ret[t].Transactions = MaxFee
    /\ ret[t].BlockHash > 2
    /\ applied = MaxFee

\* C2: a step that changes payload.full finds it nil or stores fees strictly
\* above the stored ones, a step that changes payload.fullFees raises them,
\* and an update whose fees are equal to or below the stored ones changes
\* neither.
C2_OnlyStrictImprovement ==
  [][/\ full' # full => (full = NilBlock \/ full'.fees > fullFees)
     /\ fullFees' # fullFees => (fullFees = NilFees \/ fullFees' > fullFees)
     /\ \A t \in Updaters :
          (Leaves(t, "upd_lock") /\ full # NilBlock /\ arg[t].fees <= fullFees)
            => (full' = full /\ fullFees' = fullFees /\ pc'[t] # "upd_fees")
    ]_vars

\* C2, reached: an update with the stored fees (a tie) was applied and left the
\* stored block in place.
C2_Witness ==
  \E t \in Updaters :
    /\ pc[t] = "upd_bcast"
    /\ arg[t].fees = fullFees
    /\ arg[t] # full

\* C3: once payload.stop is closed it stays closed and no step changes
\* payload.full or payload.fullFees.
C3_FrozenAfterStop ==
  [][stop => (stop' /\ full' = full /\ fullFees' = fullFees)]_vars

\* C3, reached: the background goroutine's update, built before the close and
\* delivered after it, was discarded although its fees are above the stored ones.
C3_Witness ==
  /\ pc[Bg] = "upd_ret"
  /\ stop
  /\ full # NilBlock
  /\ arg[Bg].fees > fullFees

\* C4: all calls of Resolve return the same value, and none panics.
C4_ResolveIdempotent ==
  /\ Cardinality(resolved) <= 1
  /\ \A t \in Resolvers : pc[t] # "panic"

\* C4, reached: two goroutines were inside Resolve at the same time and both
\* have returned the full block.
C4_Witness ==
  /\ \A t \in Resolvers : op[t] = "Resolve" /\ ret[t] = BlockToExecutableData(full)
  /\ full # NilBlock
  /\ closes = 1

\* C5: a goroutine parked in ResolveFull's cond.Wait when payload.stop is
\* closed is eventually released and returns.
C5_BlockedFullReleased ==
  \A t \in Resolvers : (pc[t] = "rf_wait" /\ stop) ~> (pc[t] = "idle")

\* C5, what the code does instead: with payload.stop closed no step takes a
\* parked goroutine out of cond.Wait.
C5_ParkedStaysParked ==
  [][\A t \in Resolvers : (pc[t] = "rf_wait" /\ stop) => pc'[t] = "rf_wait"]_vars

\* C6: a ResolveFull that finds no full block and an open stop channel stays
\* parked in cond.Wait until the Broadcast step of an update, and leaves it in
\* no other step; that step leaves no goroutine parked; and a woken goroutine
\* returns the stored full block, which is not nil.
C6_WokenByUpdateOnly ==
  [][/\ \A t \in Resolvers :
          Leaves(t, "rf_wait") => \E u \in Updaters : Leaves(u, "upd_bcast")
     /\ (\E u \in Updaters : Leaves(u, "upd_bcast"))
          => \A t \in Resolvers : pc'[t] # "rf_wait"
     /\ \A t \in Resolvers :
          Leaves(t, "rf_woken")
            => /\ pc'[t] = "idle"
               /\ op'[t] = "ResolveFull"
               /\ full # NilBlock
               /\ ret'[t] = BlockToExecutableData(full)
    ]_vars

\* C6, under fair scheduling: a woken goroutine gets the lock back and
\* returns.
C6_WokenEventuallyReturns ==
  \A t \in Resolvers : (pc[t] = "rf_woken") ~> (pc[t] = "idle")

\* C6, reached: both consumers went through cond.Wait and have returned the
\* full block, with payload.stop still open.
C6_Witness ==
  /\ \A t \in Resolvers :
       op[t] = "ResolveFull" /\ waited[t] /\ ret[t] = BlockToExecutableData(full)
  /\ full # NilBlock
  /\ ~stop

\* C7 as stated: a ResolveFull called with payload.stop closed returns nil
\* without waiting.
C7_FullAfterStopIsNil ==
  \A t \in Resolvers :
    callStop[t] =>
      /\ pc[t] \notin {"rf_wait", "rf_woken"}
      /\ op[t] = "ResolveFull" => (~waited[t] /\ ret[t] = NilData)

\* C7, amended: a ResolveFull called with payload.stop closed returns without
\* waiting: nil when no full block is stored, the stored full block otherwise.
C7_FullAfterStopNoWait ==
  \A t \in Resolvers :
    callStop[t] =>
      /\ pc[t] \notin {"rf_wait", "rf_woken"}
      /\ op[t] = "ResolveFull" =>
           /\ ~waited[t]
           /\ ret[t] = IF full = NilBlock THEN NilData
                                          ELSE BlockToExecutableData(full)

\* C7, reached: ResolveFull was called after the close with no full block
\* stored and has returned nil.
C7_Witness ==
  \E t \in Resolvers :
    /\ op[t] = "ResolveFull"
    /\ callStop[t]
    /\ ret[t] = NilData
    /\ full = NilBlock

\* C8: the step in which ResolveEmpty runs returns the empty block given to
\* newPayload and leaves payload.full, payload.fullFees and payload.stop as
\* they are.
C8_ResolveEmptyFrame ==
  [][\A t \in Resolvers :
       (calls'[t] # calls[t] /\ op'[t] = "ResolveEmpty")
         => /\ ret'[t] = BlockToExecutableData(EmptyBlock)
            /\ empty' = EmptyBlock
            /\ full' = full /\ fullFees' = fullFees /\ stop' = stop
    ]_vars

\* C8, reached: ResolveEmpty has returned the empty block with a full block
\* stored and payload.stop closed.
C8_Witness ==
  \E t \in Resolvers :
    /\ op[t] = "ResolveEmpty"
    /\ ret[t] = BlockToExecutableData(EmptyBlock)
    /\ full # NilBlock
    /\ stop

\* C9: when the empty build fails, buildPayload returns the error, no Payload
\* exists, no goroutine is started and the builder is never asked for a full
\* block; when it succeeds exactly one goroutine is started, and the return
\* of the Payload waits for nothing.
C9_EmptyBuildFailureIsFatal ==
  /\ emptyFailed =>
       /\ pc[Coord] = "bp_failed"
       /\ err = "error"
       /\ ~payload
       /\ spawned = 0
       /\ pc[Bg] = "off"
       /\ ~fullBuilt
  /\ pc[Coord] \in {"bp_ret", "bp_done"} => (payload /\ spawned = 1)
  /\ pc[Coord] = "bp_ret" => ENABLED BuildReturn
  /\ pc[Coord] = "bp_done" => err = "nil"
  /\ pc[Bg] # "off" => spawned = 1

\* C9, reached: the empty build has failed and buildPayload has returned the
\* error.
C9_Witness ==
  /\ emptyFailed
  /\ pc[Coord] = "bp_failed"
  /\ err = "error"

\* C10: the return of a failed build leads to timer.Reset, which arms the
\* rebuild timer and goes back to the select, and changes neither payload.full,
\* payload.fullFees nor payload.stop; the goroutine ends only in its select,
\* on a closed stop channel or a fired end timer.
C10_FailureKeepsLoop ==
  [][/\ (Leaves(Bg, "bg_build") /\ pc'[Bg] # "upd_lock")
          => /\ pc'[Bg] = "bg_reset"
             /\ full' = full /\ fullFees' = fullFees /\ stop' = stop
     /\ (pc[Bg] # "bg_stopped" /\ pc'[Bg] = "bg_stopped")
          => /\ pc[Bg] = "bg_select"
             /\ stop \/ endTimer = "ready"
     /\ Leaves(Bg, "bg_reset") => (pc'[Bg] = "bg_select" /\ timer' = "armed")
    ]_vars

\* C10, reached: after a failed attempt the rebuild timer has fired again and
\* the next attempt is under way.
C10_Witness ==
  /\ lastFail
  /\ pc[Bg] = "bg_build"

\* C11: once payload.stop is closed or the end timer has fired, the
\* background goroutine reaches its return and stays there, however often
\* the rebuild timer fires.
C11_LoopStops ==
  (stop \/ endTimer = "ready") ~> [](pc[Bg] = "bg_stopped")

\* C11, reached: the goroutine has returned through the stop case, after an
\* attempt whose update was turned away by the closed stop channel.
C11_Witness ==
  /\ pc[Bg] = "bg_stopped"
  /\ stop
  /\ endTimer # "idle"
  /\ nblocks > 0
  /\ full = NilBlock

\* C12: with the end timer fired the loop starts no builder call, also when
\* the rebuild timer is ready in the same select.
C12_NoBuildAfterDeadline ==
  [][~(endTimer = "ready" /\ pc[Bg] = "bg_select" /\ pc'[Bg] = "bg_build")]_vars

\* C12, what the code keeps: once the goroutine has taken the end timer's
\* case it starts no builder call, and Resolve still closes payload.stop and
\* returns a block.
C12_NoBuildAfterReturn ==
  [][/\ pc[Bg] = "bg_stopped" => pc'[Bg] = "bg_stopped"
     /\ \A t \in Resolvers :
          (pc[Bg] = "bg_stopped" /\ Leaves(t, "res_ret"))
            => (ret'[t] = ResolveValue /\ ret'[t] # NilData)
    ]_vars

\* The labels at which a goroutine is between Lock and Unlock.
InLock == {"upd_fees", "upd_bcast", "upd_ret", "res_close", "res_ret"}

\* C13: the background goroutine holds payload.lock only inside update,
\* never while the builder runs, so that with the builder running the lock is
\* free or held by a caller that is about to unlock it, and a consumer that
\* has the Payload and finds the lock free can run Resolve and ResolveEmpty.
C13_BuilderRunsUnlocked ==
  /\ lock = Bg <=> pc[Bg] \in InLock
  /\ pc[Bg] = "bg_build" =>
       /\ lock # Bg
       /\ lock # Free => pc[lock] \in InLock
       /\ \A t \in Resolvers :
            (/\ lock = Free
             /\ pc[Coord] = "bp_done"
             /\ pc[t] = "idle"
             /\ calls[t] < MaxCalls)
              => (ENABLED ResolveEnter(t) /\ ENABLED ResolveEmpty(t))

\* C13, reached: with the first builder call still running, one consumer has
\* got its block from Resolve and the other is inside Resolve, holding the lock.
C13_Witness ==
  /\ pc[Bg] = "bg_build"
  /\ nblocks = 0
  /\ ~lastFail
  /\ \E t, u \in Resolvers :
       /\ op[t] = "Resolve"
       /\ ret[t] = BlockToExecutableData(EmptyBlock)
       /\ pc[u] = "res_ret"
       /\ lock = u

\* C14: payload.stop changes only in the close of Resolve; with the goroutine
\* returned through the end timer and payload.stop still open, an update is
\* not turned away as stale.
C14_OnlyResolveCloses ==
  [][/\ stop' # stop => \E t \in Resolvers : Leaves(t, "res_close")
     /\ \A t \in Resolvers :
          (calls'[t] # calls[t] /\ pc'[t] \notin {"res_close", "res_ret"})
            => stop' = stop
     /\ Leaves(Bg, "bg_select") => stop' = stop
     /\ \A u \in Updaters :
          (Leaves(u, "upd_lock") /\ ~stop) => (~stop' /\ pc'[u] # "upd_ret")
    ]_vars

\* C14, reached: the goroutine has returned through the end timer,
\* payload.stop is open, and an update made afterwards has stored its block.
C14_Witness ==
  /\ pc[Bg] = "bg_stopped"
  /\ endTimer = "idle"
  /\ ~stop
  /\ pc[Producer] = "upd_fees"
  /\ full = arg[Producer]
  /\ fullFees < full.fees

\* C15: the rebuild timer is ready as soon as the goroutine starts, so the
\* first attempt waits for no recommit interval; an attempt starts only from
\* the select with the timer delivered; a successful build goes to its update
\* and a failed one straight to the reset; the update ends in the reset; the
\* reset re-arms the timer and returns to the select, and the timer is
\* delivered only after it was armed.
C15_AttemptsInSequence ==
  [][/\ Leaves(Bg, "bg_init") => (timer' = "ready" /\ pc'[Bg] = "bg_select")
     /\ (pc'[Bg] = "bg_build" /\ pc[Bg] # "bg_build")
          => (pc[Bg] = "bg_select" /\ timer = "ready" /\ timer' = "idle")
     /\ Leaves(Bg, "bg_build")
          => IF lastFail'
               THEN pc'[Bg] = "bg_reset" /\ arg'[Bg] = arg[Bg]
               ELSE pc'[Bg] = "upd_lock" /\ arg'[Bg] \in SealingBlocks(FALSE)
     /\ Leaves(Bg, "upd_lock")
          => (pc'[Bg] \in {"upd_fees", "upd_bcast", "upd_ret"} /\ lock' = Bg)
     /\ Leaves(Bg, "upd_fees") => pc'[Bg] = "upd_bcast"
     /\ (Leaves(Bg, "upd_bcast") \/ Leaves(Bg, "upd_ret")) => pc'[Bg] = "bg_reset"
     /\ Leaves(Bg, "bg_reset") => (timer' = "armed" /\ pc'[Bg] = "bg_select")
     /\ (timer' = "ready" /\ timer # "ready")
          => (timer = "armed" \/ Leaves(Bg, "bg_init"))
     /\ pc[Bg] \in {"bg_build", "upd_lock", "upd_fees", "upd_bcast", "upd_ret",
                    "bg_reset"} => timer = "idle"
     /\ pc[Bg] = "bg_build" => arg[Bg] = NilBlock
    ]_vars

\* C15, reached: a further attempt is in flight after the previous attempt of
\* the goroutine failed, the timer having been re-armed and delivered again.
C15_Witness ==
  /\ pc[Bg] = "bg_build"
  /\ lastFail
  /\ timer = "idle"
  /\ arg[Bg] = NilBlock
  /\ nblocks = 0

\* C16: whenever no update holds the lock, the stored block and fee are those
\* of the highest fee among all updates applied before cancellation, by
\* whichever thread; and an update that enters with a fee not above the
\* stored one leaves the stored block alone, whenever its block was built.
C16_ConcurrentUpdatesKeepMax ==
  [][/\ lock' \notin Updaters
          => IF applied' = NilFees
               THEN full' = NilBlock /\ fullFees' = NilFees
               ELSE full'.fees = applied' /\ fullFees' = applied'
     /\ \A u \in Updaters :
          (Leaves(u, "upd_lock") /\ ~stop /\ full # NilBlock
             /\ arg[u].fees <= fullFees)
            => (full' = full /\ fullFees' = fullFees /\ pc'[u] = "upd_bcast")
     /\ \A u \in Updaters :
          (Leaves(u, "upd_lock") /\ ~stop
             /\ (full = NilBlock \/ arg[u].fees > fullFees))
            => (full' = arg[u] /\ pc'[u] = "upd_fees")
    ]_vars

\* C16, reached: the goroutine's update is rejected against a higher-fee block
\* that the other producer built later but applied earlier.
C16_Witness ==
  /\ pc[Bg] = "upd_bcast"
  /\ ~stop
  /\ full # NilBlock
  /\ arg[Bg].fees < fullFees
  /\ arg[Bg].id < full.id

\* C17: from construction on payload.empty is the non-nil block handed to
\* newPayload and no step changes it; payload.full, once non-nil, is non-nil
\* after every step, and is replaced only by the argument of an update.
C17_EmptyFixedFullNeverNil ==
  [][/\ payload' => (empty' = EmptyBlock /\ empty' # NilBlock)
     /\ payload => (payload' /\ empty' = empty)
     /\ full # NilBlock => full' # NilBlock
     /\ full' # full => \E u \in Updaters : Leaves(u, "upd_lock") /\ full' = arg[u]
    ]_vars

\* C17, reached: after a block was stored, the payload was cancelled, the
\* goroutine returned and a Resolve completed, both blocks are still present.
C17_Witness ==
  /\ payload
  /\ empty = EmptyBlock
  /\ full # NilBlock
  /\ stop
  /\ pc[Bg] = "bg_stopped"
  /\ \E t \in Resolvers : op[t] = "Resolve" /\ pc[t] = "idle"

\* The stored block and the stored fee come from the same accepted update.
SameGeneration ==
  \/ full = NilBlock /\ fullFees = NilFees
  \/ full # NilBlock /\ full.fees = fullFees

\* C18: every step of a resolver finds the stored block and fee of one and the
\* same update; the two differ only while an update holds the lock between
\* its two assignments; at most one thread is inside a locked section, and it
\* is the holder of the lock; a Resolve returns the conversion of the block it
\* found under the lock.
C18_NoTornRead ==
  [][/\ \A t \in Resolvers :
          (pc'[t] # pc[t] \/ calls'[t] # calls[t] \/ ret'[t] # ret[t])
            => (SameGeneration /\ SameGeneration')
     /\ ~SameGeneration' => (lock' \in Updaters /\ pc'[lock'] = "upd_fees")
     /\ \A t \in Updaters \cup Resolvers :
          pc'[t] \in InLock => lock' = t
     /\ \A t \in Resolvers :
          (Leaves(t, "res_ret") /\ full # NilBlock)
            => (lock = t /\ ret'[t] = BlockToExecutableData(full)
                /\ ret'[t].Transactions = fullFees)
    ]_vars

\* C18, reached: a Resolve holds the lock and reads a matching block and fee
\* while an update carrying a higher fee is held back at the lock.
C18_Witness ==
  \E t \in Resolvers, u \in Updaters :
    /\ pc[t] = "res_close"
    /\ lock = t
    /\ pc[u] = "upd_lock"
    /\ full # NilBlock
    /\ full.fees = fullFees
    /\ arg[u].fees > fullFees

\* C19: payload.stop, once closed, stays closed; it is closed at most once,
\* and exactly once when it is closed at all; a Resolve that finds it closed
\* skips the close, one that finds it open closes it; no thread panics on a
\* second close, and two Resolve calls are never both at the close.
C19_ClosedExactlyOnce ==
  [][/\ stop => stop'
     /\ closes' <= 1
     /\ stop' <=> (closes' = 1)
     /\ \A t \in Resolvers :
          /\ pc'[t] # "panic"
          /\ ret'[t] # PanicData
          /\ Leaves(t, "res_close") => (~stop /\ stop' /\ closes' = closes + 1)
          /\ (pc[t] = "idle" /\ pc'[t] = "res_ret") => (stop /\ closes' = closes)
          /\ (pc[t] = "idle" /\ pc'[t] = "res_close") => ~stop
     /\ \A t1, t2 \in Resolvers :
          (pc'[t1] = "res_close" /\ pc'[t2] = "res_close") => t1 = t2
    ]_vars

\* C19, reached: after one Resolve closed payload.stop and returned, another
\* Resolve has found it closed and is past the select without closing again.
C19_Witness ==
  \E t1, t2 \in Resolvers :
    /\ t1 # t2
    /\ op[t1] = "Resolve"
    /\ pc[t1] = "idle"
    /\ pc[t2] = "res_ret"
    /\ callStop[t2]
    /\ stop
    /\ closes = 1

\* C20: a goroutine leaves cond.Wait only in the Broadcast step of an update
\* that was not turned away, and payload.full is non-nil then and in every
\* state in which a woken goroutine has yet to return; the step in which
\* ResolveFull returns converts a non-nil payload.full, or returns nil without
\* having waited when there is none and payload.stop is closed; it never
\* dereferences a nil block and never returns the empty block.
C20_FullConvertsNonNil ==
  [][\A t \in Resolvers :
       /\ pc'[t] = "rf_woken" => full' # NilBlock
       /\ (pc[t] = "rf_wait" /\ pc'[t] = "rf_woken")
            => (\E u \in Updaters : Leaves(u, "upd_bcast") /\ lock = u)
       /\ pc'[t] # "panic"
       /\ ((Leaves(t, "rf_woken") \/ calls'[t] # calls[t])
             /\ op'[t] = "ResolveFull")
            => /\ pc'[t] = "idle"
               /\ ret'[t] = IF full = NilBlock THEN NilData
                            ELSE BlockToExecutableData(full)
               /\ full = NilBlock => (stop /\ ~waited'[t])
               /\ waited'[t] => (Leaves(t, "rf_woken") /\ full # NilBlock)
       /\ op'[t] = "ResolveFull"
            => (ret'[t] # BlockToExecutableData(empty') /\ ret'[t] # PanicData)
    ]_vars

\* C20, reached: a goroutine woken from cond.Wait has yet to take the lock
\* again, payload.stop has been closed in between, and payload.full is still
\* the non-nil block of the update that woke it.
C20_Witness ==
  \E t \in Resolvers :
    /\ pc[t] = "rf_woken"
    /\ waited[t]
    /\ stop
    /\ full # NilBlock

====
